---------------------------- MODULE Spec2Model ----------------------------
(***************************************************************************)
(* Model of the calendar query parser (src/query_parser.py): the regular   *)
(* expressions of the rule tables, matched character by character, the     *)
(* quantity and weekday extraction, the date arithmetic of parse_query,    *)
(* and the call parse_query(query, timezone) as one step of a state        *)
(* machine whose inputs are the query text, the timezone hint and the      *)
(* clock; call_tool and the three tool handlers of the server             *)
(* (src/mcp_server.py) over the calendar service and its initialization    *)
(* (src/calendar_service.py); and concurrent callers of one parser.        *)
(***************************************************************************)
EXTENDS Integers, Sequences, FiniteSets, TLC

VARIABLES
    query,      \* the query argument of the call (a string)
    timezone,   \* the timezone argument of the call (None or a string)
    clock,      \* the UTC wall clock datetime.now() reads
    default_timezone,  \* the parser's default_timezone, set at construction
    host_zone,  \* the zone of the host's local time
    pc,         \* "called" before parse_query runs, "returned" after
    result,     \* what parse_query returned
    arguments,  \* the arguments of the query_calendar request (a dictionary)
    response,   \* the text the handler answers with, None before it answers
    invoked,    \* the calls made to the parser and the calendar service, in order
    frames,     \* the concurrent calls of parse_query: each caller's call frame
    name,       \* the tool name of the call_tool request
    service,    \* the calendar service's API client, None until initialize builds it
    credentials,  \* the calendar service's credentials, None until obtained
    sent,       \* the requests sent to the calendar API, in order
    exception   \* str(e) of the exception a call was left by, None if by none

vars == <<query, timezone, clock, default_timezone, host_zone, pc, result,
          arguments, response, invoked, frames, name, service, credentials, sent,
          exception>>

-----------------------------------------------------------------------------
(* Characters and strings.  A text is the sequence of its characters, each *)
(* a one-character string; Chars gives the text of a TLA+ string.          *)

Digits == <<"0", "1", "2", "3", "4", "5", "6", "7", "8", "9">>
UpperCase == <<"A", "B", "C", "D", "E", "F", "G", "H", "I", "J", "K", "L", "M",
               "N", "O", "P", "Q", "R", "S", "T", "U", "V", "W", "X", "Y", "Z">>
LowerCase == <<"a", "b", "c", "d", "e", "f", "g", "h", "i", "j", "k", "l", "m",
               "n", "o", "p", "q", "r", "s", "t", "u", "v", "w", "x", "y", "z">>

Range(f) == {f[i] : i \in DOMAIN f}

\* the characters of the string s (TLC's Len and SubSeq work on strings)
Chars(s) == [i \in 1..Len(s) |-> SubSeq(s, i, i)]

CharAt(t, i) == t[i]

DigitChars == Range(Digits)
UpperChars == Range(UpperCase)
AlphaChars == Range(UpperCase) \cup Range(LowerCase)
WordChars == DigitChars \cup AlphaChars \cup {"_"}       \* \w
SpaceChars == {" ", "\t", "\n", "\r", "\f"}              \* \s

IsDigit(c) == c \in DigitChars
IsSpace(c) == c \in SpaceChars
IsWordChar(c) == c \in WordChars

\* str.lower() of each upper-case character
LowerOf == [c \in UpperChars |-> LowerCase[CHOOSE k \in DOMAIN UpperCase : UpperCase[k] = c]]

lower_char(c) == IF c \in UpperChars THEN LowerOf[c] ELSE c

\* str.lower()
lower(t) == [i \in DOMAIN t |-> lower_char(t[i])]

\* the value of each decimal digit
DigitValueOf == [c \in DigitChars |-> (CHOOSE k \in DOMAIN Digits : Digits[k] = c) - 1]

DigitValue(c) == DigitValueOf[c]

RECURSIVE int_upto(_, _)
int_upto(t, n) ==
    IF n = 0 THEN 0 ELSE 10 * int_upto(t, n - 1) + DigitValue(CharAt(t, n))

\* int() raises ValueError for a string of more than this many digits
\* (CPython 3.11 and later: sys.int_info.default_max_str_digits)
int_max_str_digits == 4300

\* what int() gives when it raises ValueError; the int() of a string of
\* digits is never negative
ValueError == -1

\* int() of a string of decimal digits
int(t) == IF Len(t) > int_max_str_digits THEN ValueError ELSE int_upto(t, Len(t))

-----------------------------------------------------------------------------
(* Regular expressions.  A regex is a sequence of nodes; Ends gives the end *)
(* positions of its matches from a start position in the order Python's    *)
(* backtracking matcher tries them (greedy first).                         *)

Lit(s) == [k |-> "lit", s |-> Chars(s)]             \* literal text
WB == [k |-> "wb"]                                  \* \b
Rep(cls, lo, hi) == [k |-> "rep", cls |-> cls, lo |-> lo, hi |-> hi]
Alt(alts) == [k |-> "alt", alts |-> alts]           \* (?:a|b|c)
Opt(r) == [k |-> "opt", r |-> r]                    \* (?:r)?

SP == Rep("s", 1, -1)                               \* \s+
DotStar == Rep("dot", 0, -1)                        \* .*
DigitsPlus == Rep("d", 1, -1)                       \* \d+
D12 == Rep("d", 1, 2)                               \* \d{1,2}
D24 == Rep("d", 2, 4)                               \* \d{2,4}
D4 == Rep("d", 4, 4)                                \* \d{4}
Sep == Rep("sep", 1, 1)                             \* [/-]

InClass(cls, c) ==
    CASE cls = "s" -> IsSpace(c)
      [] cls = "d" -> IsDigit(c)
      [] cls = "dot" -> c # "\n"
      [] cls = "sep" -> c \in {"/", "-"}
      [] cls = "alpha" -> c \in AlphaChars

Min(S) == CHOOSE x \in S : \A y \in S : x <= y

\* the first position from i on that holds no character of class cls
RunEnd(cls, t, i) ==
    Min({j \in i..(Len(t) + 1) : j > Len(t) \/ ~InClass(cls, CharAt(t, j))})

RECURSIVE RunLen(_, _, _, _)
\* how many characters of class cls follow position i, at most hi (hi < 0: any);
\* an unbounded run of 16 characters or more is measured by its end
RunLen(cls, t, i, hi) ==
    IF hi = 0 \/ i > Len(t) \/ ~InClass(cls, CharAt(t, i)) THEN 0
    ELSE IF hi < 0 /\ i + 15 <= Len(t) /\ \A j \in i..(i + 15) : InClass(cls, CharAt(t, j))
         THEN RunEnd(cls, t, i + 16) - i
    ELSE 1 + RunLen(cls, t, i + 1, hi - 1)

IsWordAt(t, i) == i >= 1 /\ i <= Len(t) /\ IsWordChar(CharAt(t, i))

RECURSIVE Ends(_, _, _, _), Chain(_, _, _, _, _, _), AllEnds(_, _, _, _), AltEnds(_, _, _, _),
          NodeEnds(_, _, _)
NodeEnds(node, t, i) ==
    CASE node.k = "lit" ->
            IF i + Len(node.s) - 1 <= Len(t) /\ SubSeq(t, i, i + Len(node.s) - 1) = node.s
            THEN <<i + Len(node.s)>> ELSE <<>>
      [] node.k = "wb" ->
            IF IsWordAt(t, i - 1) # IsWordAt(t, i) THEN <<i>> ELSE <<>>
      [] node.k = "rep" ->
            LET n == RunLen(node.cls, t, i, node.hi)
            IN  IF n < node.lo THEN <<>>
                ELSE [j \in 1..(n - node.lo + 1) |-> i + n - (j - 1)]
      [] node.k = "alt" -> AltEnds(node.alts, 1, t, i)
      [] node.k = "opt" -> Ends(node.r, 1, t, i) \o <<i>>

AltEnds(alts, a, t, i) ==
    IF a > Len(alts) THEN <<>>
    ELSE Ends(alts[a], 1, t, i) \o AltEnds(alts, a + 1, t, i)

Chain(re, k, t, js, lo, hi) ==
    IF lo > hi THEN <<>>
    ELSE IF lo = hi THEN Ends(re, k, t, js[lo])
    ELSE Chain(re, k, t, js, lo, (lo + hi) \div 2)
         \o Chain(re, k, t, js, (lo + hi) \div 2 + 1, hi)

\* the ends of the matches of re[k..] that start at the positions js, in order
AllEnds(re, k, t, js) == Chain(re, k, t, js, 1, Len(js))

\* the ends of the matches of re[k..] that start at position i
Ends(re, k, t, i) ==
    IF k > Len(re) THEN <<i>>
    ELSE AllEnds(re, k + 1, t, NodeEnds(re[k], t, i))

\* the positions of t where \b holds
WordBoundaries(t) ==
    LET w == [i \in 0..(Len(t) + 1) |-> i >= 1 /\ i <= Len(t) /\ t[i] \in WordChars]
    IN  {i \in 1..(Len(t) + 1) : w[i - 1] # w[i]}

\* The positions a match of re can start at, given the word boundaries bs
\* of t: a pattern that begins with \b starts at a boundary, and one that
\* goes on with a literal starts where the literal's first character stands.
StartsOf(re, t, bs) ==
    IF re[1].k # "wb" THEN 1..(Len(t) + 1)
    ELSE IF Len(re) >= 2 /\ re[2].k = "lit"
         THEN {i \in bs : i <= Len(t) /\ t[i] = re[2].s[1]}
    ELSE bs

\* re.search(pattern, text) is not None, given the word boundaries bs of t
re_search_from(re, t, bs) == \E i \in StartsOf(re, t, bs) : Ends(re, 1, t, i) # <<>>

\* re.search(pattern, text) is not None
re_search(re, t) == re_search_from(re, t, WordBoundaries(t))


-----------------------------------------------------------------------------
(* The rule tables of CalendarQueryParser.__init__.                        *)

Word(w) == <<WB, Lit(w), WB>>                        \* \bw\b
Words2(a, b) == <<WB, Lit(a), SP, Lit(b), WB>>       \* \ba\s+b\b
Span(a, b) == <<WB, Lit(a), DotStar, Lit(b), WB>>    \* \ba.*b\b
Span2(a, b, c) == <<WB, Lit(a), SP, Lit(b), DotStar, Lit(c), WB>>  \* \ba\s+b.*c\b

MonthNames == <<"january", "february", "march", "april", "may", "june", "july",
                "august", "september", "october", "november", "december">>
MonthAbbrs == <<"jan", "feb", "mar", "apr", "may", "jun", "jul", "aug", "sep",
                "oct", "nov", "dec">>

\* (?:january|february|...): one alternative per name, in the order written
OneOf(names) == Alt([n \in DOMAIN names |-> <<Lit(names[n])>>])

patterns ==
    [today |-> << Word("today"),
                  Words2("this", "day"),
                  Span("what", "today"),
                  Span("today", "schedule"),
                  Span("today", "events"),
                  Span("today", "appointments") >>,
     tomorrow |-> << Word("tomorrow"),
                     Words2("next", "day"),
                     Span("what", "tomorrow"),
                     Span("tomorrow", "schedule"),
                     Span("tomorrow", "events"),
                     Span("tomorrow", "appointments") >>,
     yesterday |-> << Word("yesterday"),
                      Words2("previous", "day"),
                      Span("yesterday", "events") >>,
     this_week |-> << Words2("this", "week"),
                      Span2("this", "week", "events"),
                      Span2("this", "week", "schedule"),
                      Words2("weekly", "schedule") >>,
     next_week |-> << Words2("next", "week"),
                      Span2("next", "week", "events"),
                      Span2("next", "week", "schedule") >>,
     upcoming |-> << Word("upcoming"),
                     Words2("coming", "up"),
                     Span("next", "events"),
                     Span("future", "events"),
                     Span("what", "next") >>,
     specific_date |-> << <<WB, D12, Sep, D12, Sep, D24, WB>>,
                          <<WB, D4, Sep, D12, Sep, D12, WB>>,
                          <<WB, OneOf(MonthNames), SP, D12, WB>>,
                          <<WB, OneOf(MonthAbbrs), SP, D12, WB>>,
                          <<WB, D12, SP, OneOf(MonthNames), WB>>,
                          <<WB, D12, SP, OneOf(MonthAbbrs), WB>> >>]

\* the keys of day_patterns in the order the dictionary was written
day_names == <<"monday", "tuesday", "wednesday", "thursday", "friday",
               "saturday", "sunday">>

day_patterns ==
    [monday |-> << Word("monday"), Word("mon") >>,
     tuesday |-> << Word("tuesday"), Word("tue"), Word("tues") >>,
     wednesday |-> << Word("wednesday"), Word("wed") >>,
     thursday |-> << Word("thursday"), Word("thu"), Word("thur"), Word("thurs") >>,
     friday |-> << Word("friday"), Word("fri") >>,
     saturday |-> << Word("saturday"), Word("sat") >>,
     sunday |-> << Word("sunday"), Word("sun") >>]

\* _matches_patterns: re.search(pattern, text, re.IGNORECASE) for any pattern.
\* The patterns are written in lower case, so ignoring case is matching the
\* lowered text.
_matches_patterns(text, pats) ==
    LET folded == lower(text)
        bs == WordBoundaries(folded)
    IN  \E p \in DOMAIN pats : re_search_from(pats[p], folded, bs)

-----------------------------------------------------------------------------
(* A match with one capturing group: the pattern is pre (group) post.       *)
(* re_group gives match.group(1) of re.search, or NoMatch: the leftmost     *)
(* start, and from it the first way through in backtracking order.          *)

NoMatch == [found |-> FALSE]

\* the indices m of the positions ks from which post matches
GoesOn(post, t, ks) == {m \in 1..Len(ks) : Ends(post, 1, t, ks[m]) # <<>>}

\* the indices n of js from which re goes on to match post
Through(re, post, t, js) ==
    {n \in 1..Len(js) : GoesOn(post, t, Ends(re, 1, t, js[n])) # {}}

\* the first of the positions ks, in order, from which post matches
FirstOn(post, t, ks) == ks[Min(GoesOn(post, t, ks))]

\* the group that starts at j and ends before k
GroupSpan(t, j, k) ==
    [found |-> TRUE, from |-> j, to |-> k - 1, text |-> SubSeq(t, j, k - 1)]

\* the group that starts at j: its first end, in order, that lets post match
GroupAt(grp, post, t, j) == GroupSpan(t, j, FirstOn(post, t, Ends(grp, 1, t, j)))

\* the group of the match that starts at i
GroupFrom(pre, grp, post, t, i) ==
    GroupAt(grp, post, t, FirstOn(grp \o post, t, Ends(pre, 1, t, i)))

\* the positions of t where a match of re starts
MatchStarts(re, t) ==
    {i \in StartsOf(re, t, WordBoundaries(t)) : Ends(re, 1, t, i) # <<>>}

GroupOfFirst(pre, grp, post, t, starts) ==
    IF starts = {} THEN NoMatch
    ELSE GroupFrom(pre, grp, post, t, Min(starts))

re_group(pre, grp, post, t) ==
    GroupOfFirst(pre, grp, post, t, MatchStarts(pre \o grp \o post, t))

-----------------------------------------------------------------------------
(* Quantity and weekday extraction.                                        *)

Plural(w) == <<Lit(w), Opt(<<Lit("s")>>)>>           \* ws?

\* "if match: return int(match.group(1))", and otherwise what comes after it
IntOr(match, otherwise) == IF match.found THEN int(match.text) ELSE otherwise

\* _extract_number_of_days
_extract_number_of_days(text) ==
    IF re_search(Words2("next", "week"), text) \/ re_search(Words2("this", "week"), text)
    THEN 7
    ELSE IntOr(re_group(<<WB, Lit("next"), SP>>, <<DigitsPlus>>,
                        <<SP>> \o Plural("day") \o <<WB>>, text),
               IntOr(re_group(<<WB>>, <<DigitsPlus>>,
                              <<SP>> \o Plural("day") \o <<WB>>, text),
                     7))

MinOf(a, b) == IF a <= b THEN a ELSE b

Capped(n) == IF n = ValueError THEN ValueError ELSE MinOf(n, 50)

\* "if match: return min(int(match.group(1)), 50)", and the default
CappedOr(match) == IF match.found THEN Capped(int(match.text)) ELSE 10

\* _extract_max_results
_extract_max_results(text) ==
    CappedOr(re_group(<<WB, Alt(<< <<Lit("show")>>, <<Lit("first")>>, <<Lit("next")>> >>),
                        SP, Opt(<<Lit("me"), SP>>)>>,
                      <<DigitsPlus>>,
                      <<SP, Alt(<< Plural("event"), Plural("appointment"),
                                   Plural("meeting") >>), WB>>, text))

None == "None"

RECURSIVE day_from_end(_, _)
\* a variant that goes through the days from sunday back to monday
day_from_end(text, d) ==
    IF d > Len(day_names) THEN None
    ELSE IF _matches_patterns(text, day_patterns[day_names[Len(day_names) + 1 - d]])
         THEN day_names[Len(day_names) + 1 - d]
    ELSE day_from_end(text, d + 1)

\* _extract_day_of_week: the first key of day_patterns, in dictionary order,
\* one of whose patterns matches
RECURSIVE day_from(_, _)
day_from(text, d) ==
    IF d > Len(day_names) THEN None
    ELSE IF _matches_patterns(text, day_patterns[day_names[d]]) THEN day_names[d]
    ELSE day_from(text, d + 1)

_extract_day_of_week(text) == day_from(text, 1)

-----------------------------------------------------------------------------
(* datetime: the proleptic Gregorian calendar, timedelta arithmetic,        *)
(* replace(), weekday(), and the zones of the timezone database.            *)

Years == 2023..2028                  \* the years the model's clock can show

is_leap(y) == y % 4 = 0 /\ (y % 100 # 0 \/ y % 400 = 0)

days_in_month(y, m) ==
    IF m = 2 THEN (IF is_leap(y) THEN 29 ELSE 28)
    ELSE IF m \in {4, 6, 9, 11} THEN 30 ELSE 31

RECURSIVE days_before_month(_, _)
days_before_month(y, m) ==
    IF m = 1 THEN 0 ELSE days_before_month(y, m - 1) + days_in_month(y, m - 1)

days_before_year(y) ==
    (y - 1) * 365 + ((y - 1) \div 4) - ((y - 1) \div 100) + ((y - 1) \div 400)

\* date.toordinal(): 0001-01-01 is day 1
ymd2ord(y, m, d) == days_before_year(y) + days_before_month(y, m) + d

\* the year the day of ordinal n is in
year_of(n) ==
    CHOOSE yy \in Years \cup {Min(Years) - 1, Min(Years) + Cardinality(Years)} :
        days_before_year(yy) < n /\ n <= days_before_year(yy + 1)

\* the month the r-th day of year y is in
month_of(y, r) ==
    CHOOSE mm \in 1..12 :
        days_before_month(y, mm) < r /\ r <= days_before_month(y, mm) + days_in_month(y, mm)

ymd(y, m, r) == [year |-> y, month |-> m, day |-> r - days_before_month(y, m)]

\* the r-th day of year y
day_of_year(y, r) == ymd(y, month_of(y, r), r)

ord2ymd_in(n, y) == day_of_year(y, n - days_before_year(y))

\* date.fromordinal()
ord2ymd(n) == ord2ymd_in(n, year_of(n))

toordinal(dt) == ymd2ord(dt.year, dt.month, dt.day)

\* datetime.weekday(): Monday is 0
weekday(dt) == (toordinal(dt) + 6) % 7

\* dt on the date d
on_date(dt, d) == [dt EXCEPT !.year = d.year, !.month = d.month, !.day = d.day]

\* a variant that moves the day of the month and stops at the month's ends
within_month(dt, n) ==
    [dt EXCEPT !.day = IF dt.day + n < 1 THEN 1
                       ELSE IF dt.day + n > days_in_month(dt.year, dt.month)
                            THEN days_in_month(dt.year, dt.month)
                       ELSE dt.day + n]

\* dt + timedelta(days=n): the wall-clock date moves, time and tzinfo stay
plus_days(dt, n) == on_date(dt, ord2ymd(toordinal(dt) + n))

\* dt.replace(hour=0, minute=0, second=0, microsecond=0)
at_midnight(dt) ==
    [dt EXCEPT !.hour = 0, !.minute = 0, !.second = 0, !.microsecond = 0]

\* dt.replace(hour=23, minute=59, second=59, microsecond=999999)
at_end_of_day(dt) ==
    [dt EXCEPT !.hour = 23, !.minute = 59, !.second = 59, !.microsecond = 999999]

\* The timezone database: zone name -> UTC offset in hours (zones without
\* daylight saving time).  pytz.timezone(name) raises UnknownTimeZoneError
\* for any other name.
ZoneOffset ==
    [n \in {"UTC", "Asia/Tokyo", "America/Phoenix"} |->
        CASE n = "UTC" -> 0
          [] n = "Asia/Tokyo" -> 9
          [] n = "America/Phoenix" -> -7]

KnownZones == DOMAIN ZoneOffset

\* the reading utc on the date d at hour h of zone tz
in_zone(tz, utc, d, h) ==
    [year |-> d.year, month |-> d.month, day |-> d.day,
     hour |-> h, minute |-> utc.minute, second |-> utc.second,
     microsecond |-> utc.microsecond, tzinfo |-> tz]

\* the reading utc moved by the days and hours h comes to (h counted from
\* utc's midnight)
at_hour(tz, utc, h) ==
    in_zone(tz, utc, ord2ymd(ymd2ord(utc.year, utc.month, utc.day) + (h \div 24)), h % 24)

\* datetime.now(tz): the clock's UTC reading shown in zone tz
datetime_now(tz, utc) == at_hour(tz, utc, utc.hour + ZoneOffset[tz])

sort_key(a) == <<toordinal(a), a.hour, a.minute, a.second, a.microsecond>>

\* ka <= kb in lexicographic order
key_le(ka, kb) ==
    ka = kb \/ \E i \in 1..5 : ka[i] < kb[i] /\ \A j \in 1..(i - 1) : ka[j] = kb[j]

\* a <= b for two datetimes of the same zone
dt_le(a, b) == key_le(sort_key(a), sort_key(b))

\* a variant that falls back to UTC, not to the parser's default
utc_fallback(timezone_str, default_tz) ==
    IF timezone_str \in KnownZones THEN timezone_str ELSE "UTC"

\* _parse_timezone
_parse_timezone(timezone_str, default_tz) ==
    IF timezone_str = None \/ timezone_str = "" THEN default_tz
    ELSE IF timezone_str \in KnownZones THEN timezone_str
    ELSE default_tz    \* except UnknownTimeZoneError

-----------------------------------------------------------------------------
(* dateutil's parser.parse on the literals the date patterns capture:       *)
(* numbers and month names, resolved to year, month and day in dateutil's   *)
(* default month-first order; what the literal leaves out comes from the    *)
(* default, today's date on the host.                                       *)

RECURSIVE date_tokens(_, _)
\* the runs of digits and the runs of letters of s, from position i on
date_tokens(s, i) ==
    IF i > Len(s) THEN <<>>
    ELSE IF IsDigit(CharAt(s, i))
         THEN LET n == RunLen("d", s, i, -1)
              IN  <<SubSeq(s, i, i + n - 1)>> \o date_tokens(s, i + n)
    ELSE IF InClass("alpha", CharAt(s, i))
         THEN LET n == RunLen("alpha", s, i, -1)
              IN  <<SubSeq(s, i, i + n - 1)>> \o date_tokens(s, i + n)
    ELSE date_tokens(s, i + 1)

RECURSIVE SetToSeq(_)
\* the elements of a set of numbers in increasing order
SetToSeq(S) == IF S = {} THEN <<>> ELSE <<Min(S)>> \o SetToSeq(S \ {Min(S)})

\* the months the lower-case word w names
months_named(w) == {m \in 1..12 : Chars(MonthNames[m]) = w \/ Chars(MonthAbbrs[m]) = w}

MinOr0(hit) == IF hit = {} THEN 0 ELSE Min(hit)

\* parserinfo.month(): 1..12 for a month name or abbreviation, else 0
month_number(tok) == MinOr0(months_named(lower(tok)))

within_50_years(c, this_year) ==
    IF c >= this_year + 50 THEN c - 100
    ELSE IF c < this_year - 50 THEN c + 100
    ELSE c

\* parserinfo.convertyear(): a two-digit year is taken within 50 years of
\* the current one
convertyear(y, century_specified, this_year) ==
    IF y >= 100 \/ century_specified THEN y
    ELSE within_50_years(y + (this_year \div 100) * 100, this_year)

ParseError == [ok |-> FALSE]     \* ValueError (ParserError) or OverflowError

\* datetime(year, month, day): ValueError unless it is a date of the calendar
make_date(y, m, d) ==
    IF y >= 1 /\ y <= 9999 /\ m >= 1 /\ m <= 12 /\ d >= 1 /\ d <= days_in_month(y, m)
    THEN [ok |-> TRUE, year |-> y, month |-> m, day |-> d]
    ELSE ParseError

IsNum(tok) == IsDigit(tok[1])

\* the n-th number of the tokens: its value, and whether it is written with
\* more than two digits (century_specified)
val(toks, nums, n) == int(toks[nums[n]])
long(toks, nums, n) == Len(toks[nums[n]]) > 2
yr(toks, nums, n, today) == convertyear(val(toks, nums, n), long(toks, nums, n), today.year)

\* three numbers: 99-01-01, 13-01-01 or 01-13-01
resolve_numbers(toks, nums, today) ==
    IF Cardinality({n \in 1..3 : long(toks, nums, n)}) > 1 THEN ParseError
    ELSE IF val(toks, nums, 1) > 31 \/ long(toks, nums, 1)
         THEN make_date(yr(toks, nums, 1, today), val(toks, nums, 2), val(toks, nums, 3))
    ELSE IF val(toks, nums, 1) > 12
         THEN make_date(yr(toks, nums, 3, today), val(toks, nums, 2), val(toks, nums, 1))
    ELSE make_date(yr(toks, nums, 3, today), val(toks, nums, 1), val(toks, nums, 2))

\* the day of today in month m of year y, or the month's last day
day_kept(y, m, today) == make_date(y, m, MinOf(today.day, days_in_month(y, m)))

\* the month m and one number: a day, or above 31 a year
resolve_month_number(toks, nums, m, today) ==
    IF val(toks, nums, 1) > 31 \/ long(toks, nums, 1)
    THEN day_kept(yr(toks, nums, 1, today), m, today)
    ELSE make_date(today.year, m, val(toks, nums, 1))

\* the month m, a day and a year
resolve_month_day_year(toks, nums, m, today) ==
    IF long(toks, nums, 1) /\ long(toks, nums, 2) THEN ParseError
    ELSE IF long(toks, nums, 1) \/ (~long(toks, nums, 2) /\ val(toks, nums, 1) > 31)
         THEN make_date(yr(toks, nums, 1, today), m, val(toks, nums, 2))
    ELSE make_date(yr(toks, nums, 2, today), m, val(toks, nums, 1))

resolve_named(toks, nums, m, today) ==
    IF m = 0 THEN ParseError
    ELSE IF Len(nums) = 1 THEN resolve_month_number(toks, nums, m, today)
    ELSE IF Len(nums) = 2 THEN resolve_month_day_year(toks, nums, m, today)
    ELSE ParseError

\* the tokens toks, of which those at nums are numbers and those at names words
resolve_ymd(toks, nums, names, today) ==
    IF Len(names) = 0 /\ Len(nums) = 3 THEN resolve_numbers(toks, nums, today)
    ELSE IF Len(names) = 1 THEN resolve_named(toks, nums, month_number(toks[names[1]]), today)
    ELSE ParseError

parse_tokens(toks, today) ==
    resolve_ymd(toks, SetToSeq({i \in DOMAIN toks : IsNum(toks[i])}),
                SetToSeq({i \in DOMAIN toks : ~IsNum(toks[i])}), today)

\* date_parser.parse(date_str), with default = today on the host
dateutil_parse(date_str, today) == parse_tokens(date_tokens(date_str, 1), today)

-----------------------------------------------------------------------------
(* _extract_specific_date and _get_next_weekday.                           *)

OptYear(comma) ==                                    \* (?:,?\s+\d{4})? or (?:\s+\d{4})?
    Opt((IF comma THEN <<Opt(<<Lit(",")>>)>> ELSE <<>>) \o <<SP, D4>>)

\* the capturing groups of date_patterns; each stands between two \b
date_patterns ==
    << <<D12, Sep, D12, Sep, D24>>,
       <<D4, Sep, D12, Sep, D12>>,
       <<OneOf(MonthNames), SP, D12, OptYear(TRUE)>>,
       <<OneOf(MonthAbbrs), SP, D12, OptYear(TRUE)>>,
       <<D12, SP, OneOf(MonthNames), OptYear(FALSE)>>,
       <<D12, SP, OneOf(MonthAbbrs), OptYear(FALSE)>> >>

NoDate == [ok |-> FALSE]

\* a variant that returns the parsed date as dateutil gave it, without a zone
left_naive(fixed, tz) ==
    IF ~fixed.ok THEN NoDate
    ELSE [ok |-> TRUE,
          date |-> [year |-> fixed.year, month |-> fixed.month, day |-> fixed.day,
                    hour |-> 0, minute |-> 0, second |-> 0, microsecond |-> 0,
                    tzinfo |-> None]]

\* timezone.localize(parsed_date) and replace(hour=0, ...), or NoDate when
\* replace(year=current_year) raised ValueError
localized(fixed, tz) ==
    IF ~fixed.ok THEN NoDate
    ELSE [ok |-> TRUE,
          date |-> [year |-> fixed.year, month |-> fixed.month, day |-> fixed.day,
                    hour |-> 0, minute |-> 0, second |-> 0, microsecond |-> 0,
                    tzinfo |-> tz]]

\* the lines after date_parser.parse: a parsed year of 1900 is replaced by
\* the current year
date_of_parsed(parsed, tz, later_now) ==
    IF ~parsed.ok THEN NoDate
    ELSE localized(IF parsed.year = 1900
                   THEN make_date(later_now.year, parsed.month, parsed.day)
                   ELSE parsed, tz)

\* the body of "if match:"
date_of_match(m, text, tz, today, later_now) ==
    IF ~m.found THEN NoDate
    ELSE date_of_parsed(dateutil_parse(SubSeq(text, m.from, m.to), today), tz, later_now)

\* One turn of the loop of _extract_specific_date: the date pattern p gives,
\* or NoDate when it does not match or the try block raises ValueError.
\* today is the host's date when dateutil runs, later_now the reading of
\* datetime.now(timezone) of line 267.
date_from_pattern(p, text, tz, today, later_now) ==
    date_of_match(re_group(<<WB>>, date_patterns[p], <<WB>>, lower(text)),
                  text, tz, today, later_now)

\* _extract_specific_date: the first pattern, in order, that gives a date
RECURSIVE date_from(_, _, _, _, _), or_next(_, _, _, _, _, _)
date_from(p, text, tz, today, later_now) ==
    IF p > Len(date_patterns) THEN NoDate
    ELSE or_next(date_from_pattern(p, text, tz, today, later_now), p, text, tz, today, later_now)

\* return the date pattern p gave, or go on with the next pattern
or_next(got, p, text, tz, today, later_now) ==
    IF got.ok THEN got ELSE date_from(p + 1, text, tz, today, later_now)

_extract_specific_date(text, tz, today, later_now) ==
    date_from(1, text, tz, today, later_now)

\* weekdays.get(target_day.lower())
weekdays(day) == (CHOOSE d \in DOMAIN day_names : day_names[d] = day) - 1

\* "if days_ahead <= 0: days_ahead += 7"
days_ahead_of(delta) == IF delta <= 0 THEN delta + 7 ELSE delta

today_or_later(delta) == IF delta < 0 THEN delta + 7 ELSE delta

\* a variant that treats the current day as the next occurrence (delta < 0
\* where the code tests delta <= 0)
same_day_counts(current_date, target_day) ==
    at_midnight(plus_days(current_date,
                          today_or_later(weekdays(target_day) - weekday(current_date))))

\* _get_next_weekday
_get_next_weekday(current_date, target_day) ==
    at_midnight(plus_days(current_date,
                          days_ahead_of(weekdays(target_day) - weekday(current_date))))

-----------------------------------------------------------------------------
(* parse_query.                                                            *)

\* a variant order that tries the date literal before the relative phrases
literal_first == <<"specific_date", "today", "tomorrow", "yesterday", "this_week",
                   "next_week", "upcoming">>

\* a variant order that tries upcoming before the two weeks
upcoming_first == <<"today", "tomorrow", "yesterday", "upcoming", "this_week",
                    "next_week", "specific_date">>

\* the order of the if/elif chain of parse_query
category_order == <<"today", "tomorrow", "yesterday", "this_week", "next_week",
                    "upcoming", "specific_date">>

\* the branch of the if/elif chain that is taken: the first category, in
\* order, one of whose patterns matches; "none" when the chain falls through
RECURSIVE category_from(_, _, _)
category_from(order, query_lower, c) ==
    IF c > Len(order) THEN "none"
    ELSE IF _matches_patterns(query_lower, patterns[order[c]]) THEN order[c]
    ELSE category_from(order, query_lower, c + 1)

classify(query_lower) == category_from(category_order, query_lower, 1)

\* a variant week that starts on the Sunday on or before now
sunday_start(now) == plus_days(now, -((weekday(now) + 1) % 7))

\* now - timedelta(days=now.weekday())
start_of_week(now) == plus_days(now, -weekday(now))

\* a variant that takes now's own day as the next Monday when now is a Monday
monday_or_today(now) == plus_days(now, (7 - weekday(now)) % 7)

\* now + timedelta(days=(7 - now.weekday()))
next_monday(now) == plus_days(now, 7 - weekday(now))

\* the week that starts on the day monday: its first and last instant
week_range(monday) ==
    [start_date |-> at_midnight(monday),
     end_date |-> at_end_of_day(plus_days(monday, 6))]

\* a variant default that asks for the largest page
widest_default == [days_ahead |-> 7, max_results |-> 50]

\* the dictionary of the last return statement
default_intent == [days_ahead |-> 7, max_results |-> 10]

\* a variant that reports the zone the date was resolved in, not the hint
resolved_zone_echo(date, timezone_str, q) ==
    [intent |-> "specific_date", date |-> date,
     timezone |-> date.tzinfo, original_query |-> q]

specific_date_result(date, timezone_str, q) ==
    [intent |-> "specific_date", date |-> date,
     timezone |-> timezone_str, original_query |-> q]

\* a variant that reports the week as an intent of its own
week_result(range, timezone_str, q) ==
    [intent |-> "week", start_date |-> range.start_date, end_date |-> range.end_date,
     timezone |-> timezone_str, original_query |-> q]

date_range_result(range, timezone_str, q) ==
    [intent |-> "date_range", start_date |-> range.start_date, end_date |-> range.end_date,
     timezone |-> timezone_str, original_query |-> q]

upcoming_events_result(days_ahead, max_results, timezone_str, q) ==
    [intent |-> "upcoming_events", days_ahead |-> days_ahead, max_results |-> max_results,
     timezone |-> timezone_str, original_query |-> q]

\* parse_query left by an exception no handler catches
raised(e) == [intent |-> None, exception |-> e]

\* the upcoming branch: the two counts are extracted, days_ahead first, and
\* a ValueError of int() goes up to the caller of parse_query
upcoming_branch(days_ahead, max_results, timezone_str, q) ==
    IF days_ahead = ValueError \/ max_results = ValueError THEN raised("ValueError")
    ELSE upcoming_events_result(days_ahead, max_results, timezone_str, q)

\* "if day_of_week:" and the default return
weekday_or_default(day_of_week, q, timezone_str, now) ==
    IF day_of_week # None
    THEN specific_date_result(_get_next_weekday(now, day_of_week), timezone_str, q)
    ELSE upcoming_events_result(default_intent.days_ahead, default_intent.max_results,
                                timezone_str, q)

\* a variant that returns the default without the weekday check
default_only(q, query_lower, timezone_str, now) ==
    upcoming_events_result(default_intent.days_ahead, default_intent.max_results,
                           timezone_str, q)

\* the statements after the if/elif chain: the weekday check and the default
after_chain(q, query_lower, timezone_str, now) ==
    weekday_or_default(_extract_day_of_week(query_lower), q, timezone_str, now)

\* the if/elif chain of parse_query and what follows it: the branch of
\* category, where the specific_date branch returns only if a date was parsed
if_elif_chain(category, parsed_date, q, query_lower, timezone_str, now) ==
    CASE category = "today" ->
            specific_date_result(at_midnight(now), timezone_str, q)
      [] category = "tomorrow" ->
            specific_date_result(at_midnight(plus_days(now, 1)), timezone_str, q)
      [] category = "yesterday" ->
            specific_date_result(at_midnight(plus_days(now, -1)), timezone_str, q)
      [] category = "this_week" ->
            date_range_result(week_range(start_of_week(now)), timezone_str, q)
      [] category = "next_week" ->
            date_range_result(week_range(next_monday(now)), timezone_str, q)
      [] category = "upcoming" ->
            upcoming_branch(_extract_number_of_days(query_lower),
                            _extract_max_results(query_lower), timezone_str, q)
      [] category = "specific_date" /\ parsed_date.ok ->
            specific_date_result(parsed_date.date, timezone_str, q)
      [] OTHER -> after_chain(q, query_lower, timezone_str, now)

\* parse_query once tz is known: the text of the query, the clock readings
\* shown in tz and on the host
parse_in(tz, q, text, timezone_str, host_tz, utc_now, utc_later) ==
    if_elif_chain(classify(lower(text)),
                  _extract_specific_date(text, tz, datetime_now(host_tz, utc_later),
                                         datetime_now(tz, utc_later)),
                  q, lower(text), timezone_str, datetime_now(tz, utc_now))

\* parse_query(query, timezone) on a parser whose default_timezone is
\* default_tz, on a host in zone host_tz; utc_now is the clock at line 96,
\* utc_later the clock when the date literal is parsed.
parse_query(q, timezone_str, default_tz, host_tz, utc_now, utc_later) ==
    parse_in(_parse_timezone(timezone_str, default_tz), q, Chars(q), timezone_str,
             host_tz, utc_now, utc_later)

-----------------------------------------------------------------------------
(* The inputs of a call and the state machine.                             *)

MaxPhrases == 2          \* a query is at most this many phrases
NumDays == 7             \* the clock's days: this many from FirstDay on

\* the phrases queries are made of
Phrases ==
    << "today", "Tomorrow", "yesterday", "this week", "next week", "upcoming",
       "show me 75 events", "next 3 days", "in 0 days", "monday", "february 31",
       "at noon on 2025-08-12", "asdkjhasdf random text", "\t" >>

RECURSIVE QueriesOf(_)
\* the queries of exactly n phrases, joined by one space
QueriesOf(n) ==
    IF n = 0 THEN {""}
    ELSE IF n = 1 THEN Range(Phrases)
    ELSE {q \o " " \o Phrases[p] : q \in QueriesOf(n - 1), p \in DOMAIN Phrases}

Queries == UNION {QueriesOf(n) : n \in 0..MaxPhrases}

RECURSIVE Repeat(_, _)
\* the string s, n times
Repeat(s, n) ==
    IF n = 0 THEN ""
    ELSE IF n % 2 = 1 THEN s \o Repeat(s, n - 1)
    ELSE Repeat(s \o s, n \div 2)

\* queries that spell a count of one digit more than int() converts
LongQueries ==
    {"upcoming " \o Repeat("1", int_max_str_digits + 1) \o " days",
     "upcoming show me " \o Repeat("9", int_max_str_digits + 1) \o " events"}

TimezoneHints == {None, "", "Asia/Tokyo", "Mars/Olympus"}

FirstDay == ymd2ord(2025, 8, 11)        \* a Monday

TimesOfDay ==
    { [hour |-> 0, minute |-> 0, second |-> 0, microsecond |-> 0],
      [hour |-> 17, minute |-> 45, second |-> 30, microsecond |-> 250000],
      [hour |-> 23, minute |-> 59, second |-> 59, microsecond |-> 999999] }

\* days at the end of a month, of February and of the year
EdgeDays == {ymd2ord(2024, 2, 28), ymd2ord(2024, 2, 29), ymd2ord(2025, 8, 31),
             ymd2ord(2025, 12, 31), ymd2ord(2026, 1, 1)}

ClockAt(ord, time) ==
    LET d == ord2ymd(ord)
    IN  [year |-> d.year, month |-> d.month, day |-> d.day, hour |-> time.hour,
         minute |-> time.minute, second |-> time.second, microsecond |-> time.microsecond]

Clocks ==
    {ClockAt(o, t) : o \in (FirstDay..(FirstDay + NumDays - 1)) \cup EdgeDays, t \in TimesOfDay}

\* one microsecond later
tick(c) ==
    IF c.microsecond < 999999 THEN [c EXCEPT !.microsecond = @ + 1]
    ELSE IF c.second < 59 THEN [c EXCEPT !.microsecond = 0, !.second = @ + 1]
    ELSE IF c.minute < 59 THEN [c EXCEPT !.microsecond = 0, !.second = 0, !.minute = @ + 1]
    ELSE IF c.hour < 23
         THEN [c EXCEPT !.microsecond = 0, !.second = 0, !.minute = 0, !.hour = @ + 1]
    ELSE ClockAt(ymd2ord(c.year, c.month, c.day) + 1,
                 [hour |-> 0, minute |-> 0, second |-> 0, microsecond |-> 0])

\* What the clock can show when parse_query reads it again: the same, or
\* one microsecond more.  Of the later reading only the date is used, and one
\* microsecond changes the date only from the last microsecond of a second.
LaterReadings(c) == IF c.microsecond = 999999 THEN {c, tick(c)} ELSE {c}

\* CalendarQueryParser.__init__: default_timezone is the host's zone when
\* tzlocal can be imported, UTC otherwise
HostZones == {"UTC", "America/Phoenix"}

NoResult == [intent |-> None]

\* the empty dictionary
NoArguments == [k \in {} |-> None]

TypeOK ==
    /\ pc \in {"start", "failed", "request", "called", "returned", "raised", "responded"}
    /\ timezone \in TimezoneHints
    /\ default_timezone \in KnownZones
    /\ host_zone \in KnownZones

InitWith(qs, cs, hs, zs) ==
    /\ query \in qs
    /\ timezone \in hs
    /\ clock \in cs
    /\ host_zone \in zs
    /\ default_timezone \in {"UTC", host_zone}
    /\ pc = "called"
    /\ result = NoResult
    /\ arguments = NoArguments
    /\ response = None
    /\ invoked = <<>>
    /\ frames = <<>>
    /\ name = None /\ service = None /\ credentials = None /\ sent = <<>>
    /\ exception = None

\* the digits int() refused: those of the day count if they are too many,
\* else those of the result count
refused_digits(days, count) ==
    IF days.found /\ Len(days.text) > int_max_str_digits THEN days.text ELSE count.text

\* the first of two matches that is one
first_found(a, b) == IF a.found THEN a ELSE b

\* the day count _extract_number_of_days converts
days_match(text) ==
    first_found(re_group(<<WB, Lit("next"), SP>>, <<DigitsPlus>>,
                         <<SP>> \o Plural("day") \o <<WB>>, text),
                re_group(<<WB>>, <<DigitsPlus>>, <<SP>> \o Plural("day") \o <<WB>>, text))

\* the result count _extract_max_results converts
count_match(text) ==
    re_group(<<WB, Alt(<< <<Lit("show")>>, <<Lit("first")>>, <<Lit("next")>> >>),
               SP, Opt(<<Lit("me"), SP>>)>>,
             <<DigitsPlus>>,
             <<SP, Alt(<< Plural("event"), Plural("appointment"), Plural("meeting") >>), WB>>,
             text)

\* str(e) of the ValueError of int() for a text of n digits
int_error_text(n) ==
    "Exceeds the limit (" \o ToString(int_max_str_digits)
    \o " digits) for integer string conversion: value has " \o ToString(n)
    \o " digits; use sys.set_int_max_str_digits() to increase the limit"

\* the call parse_query(query, timezone)
ParseQuery ==
    /\ pc = "called"
    /\ \E later \in LaterReadings(clock) :
          result' = parse_query(query, timezone, default_timezone, host_zone,
                                clock, later)
    /\ pc' = IF "exception" \in DOMAIN result' THEN "raised" ELSE "returned"
    /\ exception' = IF "exception" \in DOMAIN result'
                    THEN int_error_text(Len(refused_digits(days_match(lower(Chars(query))),
                                                           count_match(lower(Chars(query))))))
                    ELSE exception
    /\ invoked' = Append(invoked, [op |-> "parse_query", args |-> <<query, timezone>>])
    /\ UNCHANGED <<query, timezone, clock, default_timezone, host_zone,
                   arguments, response, frames, name, service, credentials, sent>>

Next == ParseQuery

\* every query and every hint, on one clock: Wednesday 2025-08-13, 17:45:30.25 UTC
TextClocks == {ClockAt(FirstDay + 2, CHOOSE t \in TimesOfDay : t.hour = 17)}

Init == InitWith(Queries \cup LongQueries, TextClocks, TimezoneHints, {"UTC"})

Spec == Init /\ [][Next]_vars

\* one query of each kind, on every clock
DateQueries ==
    {"today", "Tomorrow", "yesterday", "this week", "next week", "upcoming",
     "monday", "tue", "wednesday", "thurs", "fri", "saturday", "sunday or monday",
     "march 5", "february 29", "february 31 monday", "feb 30 5 march",
     "sunny months"}

DateInit == InitWith(DateQueries, Clocks, TimezoneHints, HostZones)

DateSpec == DateInit /\ [][Next]_vars

-----------------------------------------------------------------------------
(* The query_calendar handler of the server (src/mcp_server.py).           *)

\* d.get(k, default)
get(d, k, default) == IF k \in DOMAIN d THEN d[k] ELSE default

\* a variant that tests for None alone ("query is None")
IsNone(v) == v = None

\* "not query": the query is None or the empty string
IsEmpty(v) == v = None \/ v = ""

EmptyQueryError == "Error: Query cannot be empty"

\* The four glyphs of _format_single_event, each written as the escape of
\* its code point.
CalendarGlyph == "\\U0001F4C5"
ClockGlyph == "\\u23F0"
PinGlyph == "\\U0001F4CD"
MemoGlyph == "\\U0001F4DD"

\* _format_single_event
_format_single_event(event) ==
    CalendarGlyph \o " " \o get(event, "summary", "No title") \o "\n"
    \o ClockGlyph \o " " \o get(event, "start_formatted", "No start time")
    \o (IF get(event, "end_formatted", "No end time") \notin
              {"", get(event, "start_formatted", "No start time")}
        THEN " - " \o get(event, "end_formatted", "No end time") ELSE "")
    \o (IF get(event, "location", "") # ""
        THEN "\n" \o PinGlyph \o " " \o get(event, "location", "") ELSE "")
    \o (IF get(event, "description", "") # "" /\ Len(get(event, "description", "")) < 100
        THEN "\n" \o MemoGlyph \o " " \o get(event, "description", "") ELSE "")

\* strftime's %A and %B
DayNamesA == <<"Monday", "Tuesday", "Wednesday", "Thursday", "Friday", "Saturday",
               "Sunday">>
MonthNamesB == <<"January", "February", "March", "April", "May", "June", "July",
                 "August", "September", "October", "November", "December">>

\* strftime's %d
two_digits(n) == IF n < 10 THEN "0" \o ToString(n) ELSE ToString(n)

\* dt.strftime("%B %d")
month_day(dt) == MonthNamesB[dt.month] \o " " \o two_digits(dt.day)

\* dt.strftime("%B %d, %Y")
month_day_year(dt) == month_day(dt) \o ", " \o ToString(dt.year)

\* dt.strftime("%A, %B %d, %Y")
day_month_day_year(dt) == DayNamesA[weekday(dt) + 1] \o ", " \o month_day_year(dt)

\* the first line of the response, by intent
heading(original_query, parsed_query) ==
    CASE parsed_query.intent = "specific_date" ->
            "Schedule for " \o day_month_day_year(parsed_query.date) \o ":\n\n"
      [] parsed_query.intent = "date_range" ->
            "Events from " \o month_day(parsed_query.start_date) \o " to "
            \o month_day_year(parsed_query.end_date) \o ":\n\n"
      [] OTHER -> "Calendar events for '" \o original_query \o "':\n\n"

RECURSIVE event_lines(_, _)
\* the events from the i-th on, one after the other, each followed by "\n"
event_lines(events, i) ==
    IF i > Len(events) THEN ""
    ELSE _format_single_event(events[i]) \o "\n" \o event_lines(events, i + 1)

\* _format_events_response
_format_events_response(events, original_query, parsed_query) ==
    IF events = <<>> THEN "No events found for your query."
    ELSE heading(original_query, parsed_query) \o event_lines(events, 1)

\* the call to the calendar service that the intent selects (the if/elif
\* chain of _handle_calendar_query), or NoCall for any other intent
NoCall == [op |-> None]

service_call(parsed_query, calendar_id) ==
    CASE parsed_query.intent = "upcoming_events" ->
            [op |-> "get_upcoming_events",
             args |-> [max_results |-> get(parsed_query, "max_results", 10),
                       days_ahead |-> get(parsed_query, "days_ahead", 7),
                       timezone |-> get(parsed_query, "timezone", None),
                       calendar_id |-> calendar_id]]
      [] parsed_query.intent = "specific_date" ->
            [op |-> "get_events_for_date",
             args |-> [date |-> parsed_query.date,
                       timezone |-> get(parsed_query, "timezone", None),
                       calendar_id |-> calendar_id]]
      [] parsed_query.intent = "date_range" ->
            [op |-> "get_events_in_range",
             args |-> [start_date |-> parsed_query.start_date,
                       end_date |-> parsed_query.end_date,
                       timezone |-> get(parsed_query, "timezone", None),
                       calendar_id |-> calendar_id]]
      [] OTHER -> NoCall

\* the text of the final else branch
not_understood(q) ==
    "Sorry, I couldn't understand your query: '" \o q
    \o "'. Try asking about today's schedule, upcoming events, or specific dates."

\* what the calendar service can return: lists of formatted events
Standup == [summary |-> "Standup",
            start_formatted |-> "09:00 AM on Wednesday, August 13",
            end_formatted |-> "09:15 AM on Wednesday, August 13",
            location |-> "Room 4", description |-> "Daily sync"]
Holiday == [summary |-> "Holiday", start_formatted |-> "2025-08-14",
            end_formatted |-> "2025-08-14", location |-> "", description |-> ""]
EventLists == {<<>>, <<Standup>>, <<Holiday, Standup>>}

\* the calendar service (src/calendar_service.py): the message of the
\* exception an operation raises when the calendar API fails
FailureText ==
    [get_upcoming_events |-> "Failed to fetch calendar events",
     get_events_for_date |-> "Failed to fetch events for date",
     get_events_in_range |-> "Failed to fetch events in range",
     check_availability |-> "Failed to check availability",
     get_conflicting_events |-> "Failed to get conflicting events"]

ServiceOperations == DOMAIN FailureText

NotInitialized == "Calendar service not initialized"

\* str(error) of an HttpError of the calendar API
HttpErrorText == "<HttpError 500 \"Backend Error\">"

\* the time strings date_parser.parse accepts, of those a request can carry
ParseableTimes == {"2025-08-13T09:00:00", "2025-08-13T10:00:00Z"}

\* how a call ends: with an exception of this message, or with a value
Raise(message) == [raised |-> message]
Returns(value) == [value |-> value]

\* check_availability and get_conflicting_events parse the two times before
\* the request is made; date_parser.parse raises on the first it cannot read
unreadable_time(call) ==
    IF call.op \notin {"check_availability", "get_conflicting_events"} THEN None
    ELSE IF call.args.start_time \notin ParseableTimes THEN call.args.start_time
    ELSE IF call.args.end_time \notin ParseableTimes THEN call.args.end_time
    ELSE None

\* the operation sends its request to the calendar API: the service is
\* there and the arguments can be read
reaches_api(call) == service # None /\ unreadable_time(call) = None

\* what the API can answer to the request of an operation
Answers(op) == IF op = "check_availability" THEN BOOLEAN ELSE EventLists

\* the ways a call of an operation of the calendar service can end
outcomes(call) ==
    IF service = None THEN {Raise(NotInitialized)}
    ELSE IF unreadable_time(call) # None
         THEN {Raise("Unknown string format: " \o unreadable_time(call))}
    ELSE {Raise(FailureText[call.op] \o ": " \o HttpErrorText)}
             \cup {Returns(v) : v \in Answers(call.op)}

\* events().list(calendarId=calendar_id or 'primary', ...): the request, by
\* the operation that makes it and the calendar it asks
api_request(call) ==
    [operation |-> call.op,
     calendarId |-> IF call.args.calendar_id \in {None, ""} THEN "primary"
                    ELSE call.args.calendar_id]

\* the requests sent once the call has been made
sent_after(call) == IF reaches_api(call) THEN Append(sent, api_request(call)) ELSE sent

\* a variant that answers str(e) alone
bare_message(message) == message

\* call_tool, lines 148-156: an exception becomes the text of the response
error_response(message) == "Error: " \o message

\* the handler after the call ended: the exception leaves the handler too,
\* a value is answered with its text (texts maps each value to its text)
conclude(outcome, texts) ==
    IF "raised" \in DOMAIN outcome
    THEN exception' = outcome.raised /\ response' = response /\ pc' = "raised"
    ELSE exception' = exception /\ response' = texts[outcome.value] /\ pc' = "responded"

\* a variant that builds the service whatever _authenticate found
InitializeAnyway ==
    /\ pc = "start"
    /\ \E found \in {None, "Credentials"} :
          /\ credentials' = found
          /\ service' = "Resource"
          /\ pc' = "request"
    /\ UNCHANGED <<query, timezone, clock, default_timezone, host_zone, result,
                   arguments, response, invoked, frames, name, sent, exception>>

\* GoogleCalendarService.initialize, as CalendarMCPServer.run calls it before
\* it serves: _authenticate finds credentials or none; without them
\* initialize raises and run ends
Initialize ==
    /\ pc = "start"
    /\ \E found \in {None, "Credentials"} :
          /\ credentials' = found
          /\ service' = IF found # None THEN "Resource" ELSE service
          /\ pc' = IF found # None THEN "request" ELSE "failed"
    /\ UNCHANGED <<query, timezone, clock, default_timezone, host_zone, result,
                   arguments, response, invoked, frames, name, sent, exception>>

KnownTools == {"query_calendar", "get_upcoming_events", "check_availability"}

\* call_tool, lines 141-145: a name that is no tool
CallUnknownTool ==
    /\ pc = "request"
    /\ name \notin KnownTools
    /\ response' = "Unknown tool: " \o name
    /\ pc' = "responded"
    /\ UNCHANGED <<query, timezone, clock, default_timezone, host_zone, result,
                   arguments, invoked, frames, name, service, credentials, sent, exception>>

\* _handle_calendar_query, lines 160-167: the arguments are read and an
\* empty query is answered at once
HandleCalendarQuery ==
    /\ pc = "request"
    /\ name = "query_calendar"
    /\ query' = get(arguments, "query", "")
    /\ timezone' = get(arguments, "timezone", None)
    /\ IF IsEmpty(query')
       THEN response' = EmptyQueryError /\ pc' = "responded"
       ELSE response' = response /\ pc' = "called"
    /\ UNCHANGED <<clock, default_timezone, host_zone, result, arguments, invoked, frames,
                   name, service, credentials, sent, exception>>

\* call_tool, lines 148-156: the exception a handler was left by becomes
\* the text of the response
CallToolExcept ==
    /\ pc = "raised"
    /\ response' = error_response(exception)
    /\ pc' = "responded"
    /\ UNCHANGED <<query, timezone, clock, default_timezone, host_zone, result,
                   arguments, invoked, frames, name, service, credentials, sent, exception>>

\* the text for each list of events the calendar service may return
query_texts(q, parsed_query) ==
    [events \in EventLists |-> _format_events_response(events, q, parsed_query)]

\* the handler calls the operation of the calendar service and answers
answer_query(call) ==
    /\ invoked' = Append(invoked, call)
    /\ sent' = sent_after(call)
    /\ \E outcome \in outcomes(call) :
          conclude(outcome, query_texts(query, result))

\* _handle_calendar_query, lines 172-208: the calendar service is asked for
\* the events of the parsed intent and they are formatted; any other intent
\* is answered with the text of the else branch
QueryCalendarService ==
    /\ pc = "returned"
    /\ IF service_call(result, get(arguments, "calendar_id", None)).op # None
       THEN answer_query(service_call(result, get(arguments, "calendar_id", None)))
       ELSE /\ response' = not_understood(query) /\ pc' = "responded"
            /\ UNCHANGED <<invoked, sent, exception>>
    /\ UNCHANGED <<query, timezone, clock, default_timezone, host_zone, result,
                   arguments, frames, name, service, credentials>>

\* the call _handle_upcoming_events makes
upcoming_call(args) ==
    [op |-> "get_upcoming_events",
     args |-> [max_results |-> get(args, "max_results", 10),
               days_ahead |-> get(args, "days_ahead", 7),
               timezone |-> get(args, "timezone", None),
               calendar_id |-> get(args, "calendar_id", None)]]

\* the text of _handle_upcoming_events for each list of events
upcoming_texts(days_ahead) ==
    [events \in EventLists |->
        IF events = <<>>
        THEN "No upcoming events found in the next " \o ToString(days_ahead) \o " days."
        ELSE "Upcoming Events (next " \o ToString(days_ahead) \o " days):\n\n"
             \o event_lines(events, 1)]

answer_upcoming(call) ==
    /\ invoked' = Append(invoked, call)
    /\ sent' = sent_after(call)
    /\ \E outcome \in outcomes(call) :
          conclude(outcome, upcoming_texts(call.args.days_ahead))

\* _handle_upcoming_events
HandleUpcomingEvents ==
    /\ pc = "request"
    /\ name = "get_upcoming_events"
    /\ answer_upcoming(upcoming_call(arguments))
    /\ UNCHANGED <<query, timezone, clock, default_timezone, host_zone, result,
                   arguments, frames, name, service, credentials>>

\* The three glyphs of _handle_availability_check, each written as the
\* escape of its code point.
CheckGlyph == "\\u2705"
CrossGlyph == "\\u274C"
BulletGlyph == "\\u2022"

\* the call _handle_availability_check makes of the operation op
availability_call(op, args) ==
    [op |-> op,
     args |-> [start_time |-> args.start_time, end_time |-> args.end_time,
               timezone |-> get(args, "timezone", None),
               calendar_id |-> get(args, "calendar_id", None)]]

RECURSIVE conflict_lines(_, _)
\* "\n" and a bullet before each conflicting event
conflict_lines(events, i) ==
    IF i > Len(events) THEN ""
    ELSE "\n" \o BulletGlyph \o " " \o _format_single_event(events[i])
         \o conflict_lines(events, i + 1)

\* the text when the slot is taken, for each list of conflicting events
conflict_texts(args) ==
    [events \in EventLists |->
        CrossGlyph \o " You have conflicts during " \o args.start_time \o " to "
        \o args.end_time
        \o (IF events = <<>> THEN "" ELSE "\n\nConflicting events:" \o conflict_lines(events, 1))]

available_text(args) ==
    CheckGlyph \o " You are available from " \o args.start_time \o " to " \o args.end_time

\* the slot is taken: get_conflicting_events is called as well
answer_conflicts(first, second) ==
    /\ invoked' = invoked \o <<first, second>>
    /\ sent' = Append(sent_after(first), api_request(second))
    /\ \E outcome \in outcomes(second) :
          conclude(outcome, conflict_texts(second.args))

\* check_availability is called, and it raises or finds the slot free
answer_availability(call) ==
    /\ invoked' = Append(invoked, call)
    /\ sent' = sent_after(call)
    /\ \E outcome \in outcomes(call) \ {Returns(FALSE)} :
          conclude(outcome, [v \in {TRUE} |-> available_text(call.args)])

\* _handle_availability_check
HandleAvailabilityCheck ==
    /\ pc = "request"
    /\ name = "check_availability"
    /\ IF IsEmpty(get(arguments, "start_time", None))
           \/ IsEmpty(get(arguments, "end_time", None))
       THEN /\ response' = "Error: Both start_time and end_time are required"
            /\ pc' = "responded"
            /\ UNCHANGED <<invoked, sent, exception>>
       ELSE \/ answer_availability(availability_call("check_availability", arguments))
            \/ /\ Returns(FALSE) \in
                      outcomes(availability_call("check_availability", arguments))
               /\ answer_conflicts(availability_call("check_availability", arguments),
                                   availability_call("get_conflicting_events", arguments))
    /\ UNCHANGED <<query, timezone, clock, default_timezone, host_zone, result,
                   arguments, frames, name, service, credentials>>

ServerNext ==
    \/ Initialize
    \/ CallUnknownTool
    \/ HandleCalendarQuery
    \/ ParseQuery
    \/ CallToolExcept
    \/ QueryCalendarService
    \/ HandleUpcomingEvents
    \/ HandleAvailabilityCheck

RequestQueries ==
    {"today", "Tomorrow", "this week", "next week", "upcoming next 3 days", "monday",
     "march 5", "asdkjhasdf random text", "upcoming in 0 days"}

\* the argument dictionaries of query_calendar requests: with and without a
\* query, a timezone and a calendar_id
Requests ==
    {NoArguments, [query |-> ""], [query |-> None], [timezone |-> "Asia/Tokyo"],
     [query |-> "", timezone |-> "Asia/Tokyo", calendar_id |-> "work@example.com"]}
    \cup {[query |-> q] : q \in RequestQueries \cup LongQueries}
    \cup {[query |-> q, timezone |-> tz] : q \in RequestQueries,
                                           tz \in TimezoneHints \ {None}}
    \cup {[query |-> q, calendar_id |-> "work@example.com"] : q \in RequestQueries}

\* the argument dictionaries of get_upcoming_events requests
UpcomingRequests ==
    {NoArguments, [max_results |-> 5, days_ahead |-> 14],
     [days_ahead |-> 30, timezone |-> "Asia/Tokyo", calendar_id |-> "work@example.com"]}

\* the argument dictionaries of check_availability requests
AvailabilityRequests ==
    {NoArguments, [start_time |-> "2025-08-13T09:00:00"],
     [start_time |-> "2025-08-13T09:00:00", end_time |-> "2025-08-13T10:00:00Z"],
     [start_time |-> "2025-08-13T09:00:00", end_time |-> "sometime",
      calendar_id |-> "work@example.com"],
     [start_time |-> "whenever", end_time |-> "2025-08-13T10:00:00Z"]}

\* the requests to call_tool: a tool name and its arguments
ToolRequests ==
    ({"query_calendar"} \X Requests) \cup ({"get_upcoming_events"} \X UpcomingRequests)
        \cup ({"check_availability"} \X AvailabilityRequests)
        \cup ({"delete_event"} \X {NoArguments})

\* A server that run() starts ("start"), or one whose handlers are called
\* without initialize having run ("request" with no service).
ServerInit ==
    /\ \E request \in ToolRequests : name = request[1] /\ arguments = request[2]
    /\ query = "" /\ timezone = None
    /\ clock \in TextClocks
    /\ host_zone = "UTC" /\ default_timezone = "UTC"
    /\ pc \in {"start", "request"}
    /\ service = None /\ credentials = None
    /\ result = NoResult
    /\ response = None
    /\ invoked = <<>>
    /\ sent = <<>>
    /\ exception = None
    /\ frames = <<>>

ServerSpec == ServerInit /\ [][ServerNext]_vars

-----------------------------------------------------------------------------
(* Concurrent calls of parse_query on one parser.  Each call keeps its     *)
(* arguments and its local variables (query_lower, tz, now) in its own     *)
(* frame; the parser's fields are shared.  A call reads the clock (line    *)
(* 96) and, in a later step, does the rest and returns.                    *)

Callers == {1, 2}

\* a variant that keeps the arguments and locals of every call in one place,
\* as fields of the parser would be
parser_field(c) == 1

\* where the arguments and the local variables of caller c's call are kept
frame(c) == c

NoLocals == [tz |-> None]

\* the frame of a call that has not started
NewCall(q, timezone_str) ==
    [pc |-> "called", query |-> q, timezone |-> timezone_str, locals |-> NoLocals,
     read_at |-> None, later_at |-> None, result |-> NoResult]

\* lines 92-96: the arguments are bound, tz is resolved and now is read
bound(f, utc_now) ==
    [query |-> f.query, timezone |-> f.timezone,
     tz |-> _parse_timezone(f.timezone, default_timezone), now |-> utc_now]

ReadNow(c) ==
    /\ frames[c].pc = "called"
    /\ frames' = [frames EXCEPT ![c].pc = "parsing", ![c].read_at = clock,
                                ![frame(c)].locals = bound(frames[c], clock)]
    /\ UNCHANGED <<query, timezone, clock, default_timezone, host_zone, pc, result,
                   arguments, response, invoked, name, service, credentials, sent, exception>>

\* the frame of a call that has ended with r, at the clock reading utc_later
ended(f, r, utc_later) ==
    [f EXCEPT !.pc = IF "exception" \in DOMAIN r THEN "raised" ELSE "returned",
              !.later_at = utc_later, !.result = r]

\* lines 98-191 on the local variables l
rest_of_call(l, utc_later) ==
    parse_in(l.tz, l.query, Chars(l.query), l.timezone, host_zone, l.now, utc_later)

Finish(c) ==
    /\ frames[c].pc = "parsing"
    /\ frames' = [frames EXCEPT
                     ![c] = ended(@, rest_of_call(frames[frame(c)].locals, clock), clock)]
    /\ UNCHANGED <<query, timezone, clock, default_timezone, host_zone, pc, result,
                   arguments, response, invoked, name, service, credentials, sent, exception>>

\* the last microsecond of 2025, UTC
ConcClock == ClockAt(ymd2ord(2025, 12, 31), CHOOSE t \in TimesOfDay : t.hour = 23)

\* the clock moves on while the calls run
Tick ==
    /\ clock = ConcClock
    /\ clock' = tick(clock)
    /\ UNCHANGED <<query, timezone, default_timezone, host_zone, pc, result,
                   arguments, response, invoked, frames, name, service, credentials,
                   sent, exception>>

ConcNext == Tick \/ \E c \in Callers : ReadNow(c) \/ Finish(c)

ConcQueries == {"today", "Tomorrow", "march 5", "monday"}

ConcInit ==
    /\ frames \in [Callers -> {NewCall(q, tz) : q \in ConcQueries,
                                                tz \in {None, "Asia/Tokyo"}}]
    /\ clock = ConcClock
    /\ host_zone = "UTC" /\ default_timezone = "UTC"
    /\ query = "" /\ timezone = None
    /\ pc = "called"
    /\ result = NoResult
    /\ arguments = NoArguments
    /\ response = None
    /\ invoked = <<>>
    /\ name = None /\ service = None /\ credentials = None /\ sent = <<>>
    /\ exception = None

ConcSpec == ConcInit /\ [][ConcNext]_vars

-----------------------------------------------------------------------------
(* What the claims speak of.                                               *)

Returned == pc = "returned"

\* the text parse_query classifies: the query in lower case
QueryLower == lower(Chars(query))

\* the now of the call: the clock in the resolved zone
NowOfCall == datetime_now(_parse_timezone(timezone, default_timezone), clock)

\* some pattern of the category matches the query
Matches(category) == _matches_patterns(QueryLower, patterns[category])

\* some alias of some weekday occurs in the query
HasWeekdayAlias == \E d \in DOMAIN day_names : _matches_patterns(QueryLower, day_patterns[day_names[d]])

TimeOfDay(dt) == <<dt.hour, dt.minute, dt.second, dt.microsecond>>

DateTimeFields == {"year", "month", "day", "hour", "minute", "second", "microsecond", "tzinfo"}

\* a date of the calendar with a time of day, in a zone
IsDateTime(dt) ==
    /\ DOMAIN dt = DateTimeFields
    /\ dt.year \in 1..9999 /\ dt.month \in 1..12
    /\ dt.day \in 1..days_in_month(dt.year, dt.month)
    /\ dt.hour \in 0..23 /\ dt.minute \in 0..59 /\ dt.second \in 0..59
    /\ dt.microsecond \in 0..999999
    /\ dt.tzinfo \in KnownZones

CommonFields == {"intent", "timezone", "original_query"}

\* one intent of the three, with the fields it requires
WellFormed(r) ==
    \/ /\ r.intent = "upcoming_events"
       /\ DOMAIN r = CommonFields \cup {"days_ahead", "max_results"}
       /\ r.days_ahead \in Int /\ r.max_results \in Int
    \/ /\ r.intent = "specific_date"
       /\ DOMAIN r = CommonFields \cup {"date"}
       /\ IsDateTime(r.date)
    \/ /\ r.intent = "date_range"
       /\ DOMAIN r = CommonFields \cup {"start_date", "end_date"}
       /\ IsDateTime(r.start_date) /\ IsDateTime(r.end_date)

\* C1: for every query (empty, whitespace only, unrelated text included) and
\* every timezone hint (absent, empty, valid, unrecognized) parse_query
\* returns, and what it returns carries exactly one intent of upcoming_events,
\* specific_date and date_range, with the fields that intent requires.
C1_Totality == (pc # "called") => (Returned /\ WellFormed(result))

\* the categories in the order the claim gives them
ClaimedOrder == <<"today", "tomorrow", "yesterday", "this_week", "next_week",
                  "upcoming", "specific_date">>

\* the result is the intent the category stands for, at the now of the call
IntentOf(category, r) ==
    CASE category = "today" ->
            r.intent = "specific_date" /\ r.date = at_midnight(NowOfCall)
      [] category = "tomorrow" ->
            r.intent = "specific_date" /\ r.date = at_midnight(plus_days(NowOfCall, 1))
      [] category = "yesterday" ->
            r.intent = "specific_date" /\ r.date = at_midnight(plus_days(NowOfCall, -1))
      [] category = "this_week" ->
            /\ r.intent = "date_range"
            /\ toordinal(r.start_date) = toordinal(NowOfCall) - weekday(NowOfCall)
      [] category = "next_week" ->
            /\ r.intent = "date_range"
            /\ toordinal(r.start_date) = toordinal(NowOfCall) - weekday(NowOfCall) + 7
      [] category = "upcoming" -> r.intent = "upcoming_events"

\* C2: the categories are scanned in the order today, tomorrow, yesterday,
\* this_week, next_week, upcoming, specific_date_literal, and for a query that
\* matches patterns of two or more categories the result is the intent of the
\* earliest of them.
C2_FirstCategoryWins ==
    Returned =>
        \A c \in 1..(Len(ClaimedOrder) - 1) :
            ( /\ Matches(ClaimedOrder[c])
              /\ \A e \in 1..(c - 1) : ~Matches(ClaimedOrder[e])
              /\ \E l \in (c + 1)..Len(ClaimedOrder) : Matches(ClaimedOrder[l]) )
            => IntentOf(ClaimedOrder[c], result)

\* "today at noon on 2025-08-12" is resolved as today (the 13th), not as the
\* date it spells
C2_Witness ==
    /\ Returned /\ query = "today at noon on 2025-08-12" /\ timezone = None
    /\ Matches("today") /\ Matches("specific_date")
    /\ result.intent = "specific_date"
    /\ <<result.date.year, result.date.month, result.date.day>> = <<2025, 8, 13>>

\* C3: a query that matches no category pattern and holds no weekday alias
\* gives UpcomingEvents with days_ahead = 7 and max_results = 10.
C3_FallbackDefault ==
    Returned =>
        \/ /\ result.intent = "upcoming_events"
           /\ result.days_ahead = 7 /\ result.max_results = 10
        \/ \E c \in DOMAIN ClaimedOrder : Matches(ClaimedOrder[c])
        \/ HasWeekdayAlias

C3_Witness ==
    /\ Returned /\ query = "asdkjhasdf random text"
    /\ \A c \in DOMAIN ClaimedOrder : ~Matches(ClaimedOrder[c])
    /\ ~HasWeekdayAlias
    /\ result.intent = "upcoming_events"
    /\ result.days_ahead = 7 /\ result.max_results = 10

\* the category of the branch parse_query took for the query
Category == classify(QueryLower)

Midnight == <<0, 0, 0, 0>>
EndOfDay == <<23, 59, 59, 999999>>

DateOf(dt) == <<dt.year, dt.month, dt.day>>

\* C4: for a this_week query and any now, the DateRange starts at 00:00:00 on
\* the Monday on or before now's date and ends at 23:59:59.999999 on the Sunday
\* six days after that Monday, so that start <= now <= end.
C4_ThisWeek ==
    (Returned /\ Category = "this_week") =>
        /\ result.intent = "date_range"
        /\ weekday(result.start_date) = 0
        /\ toordinal(NowOfCall) - toordinal(result.start_date) \in 0..6
        /\ TimeOfDay(result.start_date) = Midnight
        /\ toordinal(result.end_date) = toordinal(result.start_date) + 6
        /\ weekday(result.end_date) = 6
        /\ TimeOfDay(result.end_date) = EndOfDay
        /\ result.start_date.tzinfo = NowOfCall.tzinfo
        /\ result.end_date.tzinfo = NowOfCall.tzinfo
        /\ dt_le(result.start_date, NowOfCall)
        /\ dt_le(NowOfCall, result.end_date)

\* now = Wednesday 2025-08-13 gives [2025-08-11 00:00:00, 2025-08-17 23:59:59.999999]
C4_Witness ==
    /\ Returned /\ query = "this week" /\ Category = "this_week"
    /\ DateOf(NowOfCall) = <<2025, 8, 13>> /\ weekday(NowOfCall) = 2
    /\ DateOf(result.start_date) = <<2025, 8, 11>>
    /\ TimeOfDay(result.start_date) = Midnight
    /\ DateOf(result.end_date) = <<2025, 8, 17>>
    /\ TimeOfDay(result.end_date) = EndOfDay

\* C5: for a next_week query and any now, the DateRange starts at 00:00:00 on
\* the first Monday strictly after now's date, which is 7 days after the
\* Monday on or before now's date (the this_week start for the same now), and
\* ends at 23:59:59.999999 on the Sunday six days later.
C5_NextWeek ==
    (Returned /\ Category = "next_week") =>
        /\ result.intent = "date_range"
        /\ weekday(result.start_date) = 0
        /\ toordinal(result.start_date) - toordinal(NowOfCall) \in 1..7
        /\ toordinal(NowOfCall) - (toordinal(result.start_date) - 7) \in 0..6
        /\ TimeOfDay(result.start_date) = Midnight
        /\ toordinal(result.end_date) = toordinal(result.start_date) + 6
        /\ weekday(result.end_date) = 6
        /\ TimeOfDay(result.end_date) = EndOfDay

\* now = Wednesday 2025-08-13 gives [2025-08-18 00:00:00, 2025-08-24 23:59:59.999999]
C5_Witness ==
    /\ Returned /\ query = "next week" /\ Category = "next_week"
    /\ DateOf(NowOfCall) = <<2025, 8, 13>>
    /\ DateOf(result.start_date) = <<2025, 8, 18>>
    /\ TimeOfDay(result.start_date) = Midnight
    /\ DateOf(result.end_date) = <<2025, 8, 24>>
    /\ TimeOfDay(result.end_date) = EndOfDay

\* the date is midnight of the next day of that weekday after now's date:
\* 1 to 7 days on, and 7 when now falls on that weekday
IsNextOccurrence(date, now, day) ==
    /\ TimeOfDay(date) = Midnight
    /\ weekday(date) = weekdays(day)
    /\ toordinal(date) - toordinal(now) \in 1..7
    /\ (weekday(now) = weekdays(day)) => (toordinal(date) - toordinal(now) = 7)

\* C6: for every now and every canonical weekday, next_occurrence_of returns
\* midnight of a date that falls on the target weekday and lies 1 to 7 days
\* after now's date (strictly in the future); when now already falls on the
\* target weekday it is exactly 7 days later.  A query that names a weekday
\* and matches no category is answered with that date.
C6_NextOccurrence ==
    Returned =>
        /\ \A d \in DOMAIN day_names :
              IsNextOccurrence(_get_next_weekday(NowOfCall, day_names[d]), NowOfCall, day_names[d])
        /\ (Category = "none" /\ HasWeekdayAlias) =>
              /\ result.intent = "specific_date"
              /\ \E d \in DOMAIN day_names : IsNextOccurrence(result.date, NowOfCall, day_names[d])

\* now = Monday 2025-08-11 and "monday" gives 2025-08-18
C6_Witness ==
    /\ Returned /\ query = "monday" /\ Category = "none"
    /\ DateOf(NowOfCall) = <<2025, 8, 11>> /\ weekday(NowOfCall) = 0
    /\ result.intent = "specific_date"
    /\ DateOf(result.date) = <<2025, 8, 18>>
    /\ TimeOfDay(result.date) = Midnight

\* C7: parsing "show me 75 events" gives an UpcomingEvents intent whose
\* max_results is 50, the requested 75 capped.
C7_ShowMe75Events ==
    (Returned /\ query = "show me 75 events") =>
        (result.intent = "upcoming_events" /\ result.max_results = 50)

\* C8: parsing "next 3 days" gives an UpcomingEvents intent whose days_ahead
\* is 3.
C8_Next3Days ==
    (Returned /\ query = "next 3 days") =>
        (result.intent = "upcoming_events" /\ result.days_ahead = 3)

\* the count N of "(show|first|next) [me] N (events|appointments|meetings)"
\* in the query, or NoMatch
RequestedCount ==
    re_group(<<WB, Alt(<< <<Lit("show")>>, <<Lit("first")>>, <<Lit("next")>> >>),
               SP, Opt(<<Lit("me"), SP>>)>>,
             <<DigitsPlus>>,
             <<SP, Alt(<< Plural("event"), Plural("appointment"), Plural("meeting") >>), WB>>,
             QueryLower)

\* C9: in every UpcomingEvents intent parse_query returns, max_results <= 50,
\* and it is min(N, 50) when the text matches
\* "(show|first|next) [me] N (events|appointments|meetings)" and 10 otherwise.
C9_MaxResults ==
    (Returned /\ result.intent = "upcoming_events") =>
        /\ result.max_results <= 50
        /\ result.max_results =
              (IF RequestedCount.found THEN MinOf(int(RequestedCount.text), 50) ELSE 10)

\* C10: in every UpcomingEvents intent parse_query returns, days_ahead >= 1,
\* also for a text that spells a zero day count.
C10_DaysAheadPositive ==
    (Returned /\ result.intent = "upcoming_events") => result.days_ahead >= 1

\* the literal the date pattern p captures in the query, or NoMatch
MatchedLiteral(p) == re_group(<<WB>>, date_patterns[p], <<WB>>, QueryLower)

NumbersIn(toks) == {i \in DOMAIN toks : IsNum(toks[i])}

\* the date literal that is parsed first is a month and a day, without a year
YearlessLiteral ==
    \E p \in DOMAIN date_patterns :
        /\ MatchedLiteral(p).found
        /\ \A e \in 1..(p - 1) : ~MatchedLiteral(e).found
        /\ Cardinality(NumbersIn(date_tokens(MatchedLiteral(p).text, 1))) = 1

\* C11: when the date literal of the query carries no year, the SpecificDate
\* returned has the year that is current in the resolved timezone at the now
\* of the call, also when the host's local year differs from it.
C11_YearOfResolvedZone ==
    (Returned /\ Category = "specific_date" /\ YearlessLiteral
              /\ result.intent = "specific_date")
        => result.date.year = NowOfCall.year

\* C12: in every return path of parse_query the timezone field of the output
\* is the caller's hint as given (not the resolved zone, also when the hint is
\* unrecognized; None when there was none), and original_query is the query
\* as given, not its lower-case form.
C12_EchoesArguments ==
    Returned => (result.timezone = timezone /\ result.original_query = query)

\* a query in capitals with an unrecognized hint: both come back as given,
\* while the date is computed in the default zone
C12_Witness ==
    /\ Returned /\ query = "Tomorrow" /\ timezone = "Mars/Olympus"
    /\ result.original_query = "Tomorrow" /\ result.timezone = "Mars/Olympus"
    /\ result.date.tzinfo = "UTC"
    /\ QueryLower # Chars(query)


\* a result without the hint it echoes
Outcome(r) == [f \in DOMAIN r \ {"timezone"} |-> r[f]]

\* the zones of the dates of a result
ZonesOf(r) == {r[f].tzinfo : f \in DOMAIN r \cap {"date", "start_date", "end_date"}}

\* the hint is absent, empty or not a zone of the timezone database
NoUsableHint == timezone \notin KnownZones

\* C13: resolving the timezone never fails: an absent, an empty and an
\* unrecognized hint all resolve to the parser's default timezone, so for the
\* same query and clock a call with such a hint yields the intent and the
\* dates of the call without a hint.
C13_UnusableHintIsDefault ==
    (pc # "called" /\ NoUsableHint) =>
        /\ _parse_timezone(timezone, default_timezone) = default_timezone
        /\ ZonesOf(result) \subseteq {default_timezone}
        /\ \E later \in LaterReadings(clock) :
              Outcome(result) = Outcome(parse_query(query, None, default_timezone,
                                                    host_zone, clock, later))

\* an unrecognized hint on a parser whose default is not UTC: at midnight UTC
\* today is still the day before in the default zone
C13_Witness ==
    /\ Returned /\ timezone = "Mars/Olympus" /\ default_timezone = "America/Phoenix"
    /\ query = "today" /\ result.date.tzinfo = "America/Phoenix"
    /\ DateOf(result.date) # <<clock.year, clock.month, clock.day>>


\* C14: the result of parse_query is a function of the query, the hint and
\* the one reading now of the clock: the zone of the host and what the clock
\* shows when it is read again change no part of it, the year of a literal
\* without a year included.
C14_FunctionOfNow ==
    (pc # "called") =>
        \A h \in HostZones, later \in LaterReadings(clock) :
            result = parse_query(query, timezone, default_timezone, h, clock, later)


\* what dateutil makes of the literal of the date pattern p on the host's day
LiteralDate(p, today) == dateutil_parse(MatchedLiteral(p).text, today)

\* the date pattern p captures a literal that is no date of the calendar
UnrealLiteral(p, today) == MatchedLiteral(p).found /\ ~LiteralDate(p, today).ok

\* the date pattern p captures a date of the calendar
RealLiteral(p, today) == MatchedLiteral(p).found /\ LiteralDate(p, today).ok

\* the result is the weekday's next occurrence if the query names a weekday,
\* and the default otherwise
FellThrough ==
    IF HasWeekdayAlias
    THEN /\ result.intent = "specific_date"
         /\ IsNextOccurrence(result.date, NowOfCall, _extract_day_of_week(QueryLower))
    ELSE /\ result.intent = "upcoming_events"
         /\ result.days_ahead = 7 /\ result.max_results = 10

\* the result is the date of the literal of pattern p
IsLiteralOf(p, today) ==
    /\ result.intent = "specific_date"
    /\ DateOf(result.date) = DateOf(LiteralDate(p, today))

\* a query of the specific_date category with a literal that is no date is
\* answered without an error: by the first later literal that is a date, by
\* the weekday check or by the default
Swallowed(today) ==
    (Category = "specific_date" /\ \E p \in DOMAIN date_patterns : UnrealLiteral(p, today)) =>
        /\ Returned
        /\ \/ \E p \in DOMAIN date_patterns :
                 /\ RealLiteral(p, today) /\ IsLiteralOf(p, today)
                 /\ \A e \in 1..(p - 1) : ~RealLiteral(e, today)
           \/ /\ \A p \in DOMAIN date_patterns : ~RealLiteral(p, today)
              /\ FellThrough

\* C16: when the query is classified as a date literal but the literal is no
\* real date ("February 31"), the failure is swallowed: extraction goes on
\* to the next pattern, and when none gives a date the query falls through to
\* the weekday check and then to the default of 7 days and 10 results; no
\* error is raised.
C16_UnrealLiteralFallsThrough ==
    (pc # "called") =>
        \E later \in LaterReadings(clock) : Swallowed(datetime_now(host_zone, later))

\* "february 31 monday" is classified as a date literal and gives the next
\* Monday
C16_Witness ==
    /\ Returned /\ Category = "specific_date" /\ query = "february 31 monday"
    /\ \A p \in DOMAIN date_patterns : ~RealLiteral(p, datetime_now(host_zone, clock))
    /\ result.intent = "specific_date" /\ weekday(result.date) = 0


\* the days from now to the day the relative phrase means
DayShift == [c \in {"today", "tomorrow", "yesterday"} |->
                CASE c = "today" -> 0 [] c = "tomorrow" -> 1 [] c = "yesterday" -> -1]

\* C17: a query of the today, tomorrow or yesterday category is answered
\* with the specific date that is now's calendar date, the day after it or
\* the day before it, at 00:00:00 in the resolved timezone, on every now,
\* the ends of months and years included.
C17_RelativeDay ==
    (Returned /\ Category \in DOMAIN DayShift) =>
        /\ result.intent = "specific_date"
        /\ IsDateTime(result.date)
        /\ TimeOfDay(result.date) = Midnight
        /\ result.date.tzinfo = _parse_timezone(timezone, default_timezone)
        /\ toordinal(result.date) = toordinal(NowOfCall) + DayShift[Category]

\* tomorrow on the last day of a year is the first of January
C17_Witness ==
    /\ Returned /\ Category = "tomorrow"
    /\ DateOf(NowOfCall) = <<2025, 12, 31>>
    /\ DateOf(result.date) = <<2026, 1, 1>>


\* the N of the first "next N days" of the query, or NoMatch
NextNDays ==
    re_group(<<WB, Lit("next"), SP>>, <<DigitsPlus>>, <<SP>> \o Plural("day") \o <<WB>>,
             QueryLower)

\* the N of the first "N days" of the query, or NoMatch
NDays == re_group(<<WB>>, <<DigitsPlus>>, <<SP>> \o Plural("day") \o <<WB>>, QueryLower)

\* the days_ahead the search order gives for the query
DaysAheadInOrder ==
    IF re_search(Words2("next", "week"), QueryLower)
           \/ re_search(Words2("this", "week"), QueryLower) THEN 7
    ELSE IF NextNDays.found THEN int(NextNDays.text)
    ELSE IF NDays.found THEN int(NDays.text)
    ELSE 7

DatesOf(r) == {r[f] : f \in DOMAIN r \cap {"date", "start_date", "end_date"}}

\* a datetime with a zone, not a naive one
Aware(dt) == dt.tzinfo # None /\ dt.tzinfo \in KnownZones

\* C19: every date parse_query produces is timezone-aware, never naive, and
\* the date of every SpecificDate intent, whether it comes from today,
\* tomorrow, yesterday, a date literal or a weekday, has the time of day
\* 00:00:00.000000.
C19_AwareAndMidnight ==
    Returned =>
        /\ \A dt \in DatesOf(result) : Aware(dt)
        /\ (result.intent = "specific_date") => TimeOfDay(result.date) = Midnight

\* a date literal, parsed by dateutil as a naive date, comes back at midnight
\* in the zone of the hint
C19_Witness ==
    /\ Returned /\ query = "march 5" /\ timezone = "Asia/Tokyo"
    /\ result.intent = "specific_date" /\ result.date.tzinfo = "Asia/Tokyo"
    /\ clock.hour = 17 /\ TimeOfDay(result.date) = Midnight


\* the request has no query, or an empty one
EmptyQuery == "query" \notin DOMAIN arguments \/ arguments.query = ""

\* C20: the query_calendar handler checks for an empty query before anything
\* else: when the query argument is missing or empty the answer is the text
\* "Error: Query cannot be empty", and neither parse_query nor any operation
\* of the calendar service is invoked for the request.
C20_EmptyQueryFirst ==
    (name = "query_calendar" /\ EmptyQuery /\ pc \notin {"start", "failed", "request"}) =>
        /\ pc = "responded"
        /\ response = "Error: Query cannot be empty"
        /\ invoked = <<>>
        /\ sent = <<>>
        /\ result = NoResult

\* a request without a query argument, answered with the error
C20_Witness ==
    /\ name = "query_calendar" /\ service # None
    /\ pc = "responded" /\ "query" \notin DOMAIN arguments
    /\ "timezone" \in DOMAIN arguments
    /\ response = "Error: Query cannot be empty" /\ invoked = <<>>


\* the call of frame f has ended
Ended(f) == f.pc \in {"returned", "raised"}

\* what the call of frame f gives when it runs alone on the parser, with
\* the clock readings it had
RunAlone(f) ==
    parse_query(f.query, f.timezone, default_timezone, host_zone, f.read_at, f.later_at)

\* every call that has ended has the result it has alone
AsAlone(fs) == \A c \in Callers : Ended(fs[c]) => fs[c].result = RunAlone(fs[c])

\* C15: parse_query changes no shared state: no step of any call changes
\* default_timezone (the rule table and the weekday table are fixed at
\* construction), so however the steps of concurrent calls on one parser
\* interleave, each call returns what it returns when it runs alone.
C15_NoSharedState ==
    [][default_timezone' = default_timezone /\ AsAlone(frames')]_vars

\* caller 1 has read the clock, run over midnight and returned while the
\* call of caller 2, for another query, is still under way
C15_Witness ==
    /\ frames # <<>>
    /\ frames[1].pc = "returned" /\ frames[2].pc = "parsing"
    /\ frames[1].query = "march 5" /\ frames[2].query = "today"
    /\ frames[1].read_at = ConcClock /\ frames[1].later_at = tick(ConcClock)
    /\ frames[2].read_at = ConcClock
    /\ frames[1].result.date.year = 2026


\* the aliases of each canonical day
Aliases ==
    [monday |-> {"monday", "mon"}, tuesday |-> {"tuesday", "tue", "tues"},
     wednesday |-> {"wednesday", "wed"},
     thursday |-> {"thursday", "thu", "thur", "thurs"},
     friday |-> {"friday", "fri"}, saturday |-> {"saturday", "sat"},
     sunday |-> {"sunday", "sun"}]

\* t[i..j] is a whole word of t: word characters with none before or after
IsWholeWord(t, i, j) ==
    /\ \A k \in i..j : IsWordChar(t[k])
    /\ (i = 1 \/ ~IsWordChar(t[i - 1]))
    /\ (j = Len(t) \/ ~IsWordChar(t[j + 1]))

\* the word a occurs in t as a whole word
OccursIn(a, t) ==
    \E i \in 1..Len(t) :
        /\ i + Len(a) - 1 <= Len(t)
        /\ SubSeq(t, i, i + Len(a) - 1) = Chars(a)
        /\ IsWholeWord(t, i, i + Len(a) - 1)

\* the days, by their place in the weekday table, that the query names
NamedDays == {d \in DOMAIN day_names : \E a \in Aliases[day_names[d]] : OccursIn(a, QueryLower)}

FirstNamedDay == IF NamedDays = {} THEN None ELSE day_names[Min(NamedDays)]

\* C22: the weekday extracted from a text is the first canonical day, in
\* the order monday..sunday of the weekday table, one of whose aliases
\* occurs in the text as a whole word, and None when no alias occurs; when
\* the text names several weekdays the table order decides, not the place
\* in the text ("sunday or monday" gives monday).
C22_FirstDayOfTable ==
    (pc # "called") =>
        /\ _extract_day_of_week(QueryLower) = FirstNamedDay
        /\ (Returned /\ Category = "none") =>
              IF FirstNamedDay = None
              THEN result.intent = "upcoming_events"
              ELSE /\ result.intent = "specific_date"
                   /\ weekday(result.date) = weekdays(FirstNamedDay)

\* sunday stands first in the text and monday is the day that is found
C22_Witness ==
    /\ Returned /\ query = "sunday or monday" /\ NamedDays = {1, 7}
    /\ result.intent = "specific_date" /\ weekday(result.date) = 0


\* the text has "next week" or "this week", the first test of
\* _extract_number_of_days
WeekPhrase ==
    re_search(Words2("next", "week"), QueryLower)
        \/ re_search(Words2("this", "week"), QueryLower)

\* the N of a phrase of days in the text, or the default
DaysOfPhrase ==
    IF NextNDays.found THEN int(NextNDays.text)
    ELSE IF NDays.found THEN int(NDays.text)
    ELSE 7

\* C26: within parse_query the rule that gives 7 days for "next week" or
\* "this week" never fires: a text with either phrase is classified as
\* this_week or next_week, or as an earlier category, before upcoming is
\* reached, so every UpcomingEvents of the upcoming category has the
\* days_ahead of a "next N days" or "N days" phrase, or the default 7.
C26_WeekRuleNeverFires ==
    (pc # "called" /\ Category = "upcoming") =>
        /\ ~WeekPhrase
        /\ Returned => (result.intent = "upcoming_events"
                           /\ result.days_ahead = DaysOfPhrase)

\* an upcoming query whose days come from "next 3 days"
C26_Witness ==
    /\ Returned /\ Category = "upcoming" /\ query = "upcoming next 3 days"
    /\ ~WeekPhrase /\ result.days_ahead = 3


\* the intents _handle_calendar_query has a branch for
HandledIntents == {"upcoming_events", "specific_date", "date_range"}

\* C25: the intent parse_query returns is always one of upcoming_events,
\* specific_date and date_range, so for no non-empty query and no timezone
\* hint does the query_calendar handler take its final else branch: no
\* response is the text "Sorry, I couldn't understand your query ...".
C25_ElseBranchUnreachable ==
    (name = "query_calendar") =>
        /\ (pc = "returned") => result.intent \in HandledIntents
        /\ (pc = "responded") =>
              /\ response # not_understood(query)
              /\ (result # NoResult /\ result.intent # None) => Len(invoked) = 2

\* a query of no recognised words, with a hint that is no zone: it is
\* understood as upcoming events and the calendar service is asked
C25_Witness ==
    /\ name = "query_calendar" /\ pc = "responded"
    /\ query = "asdkjhasdf random text" /\ timezone = "Mars/Olympus"
    /\ result.intent = "upcoming_events"
    /\ invoked[2].op = "get_upcoming_events"
    /\ response # not_understood(query)


\* the call of parse_query the handler makes for the request
ParseCall == [op |-> "parse_query", args |-> <<query, timezone>>]

\* C21: for each query_calendar request with a non-empty query the handler
\* calls parse_query exactly once and then exactly one operation of the
\* calendar service, the one of the parsed intent with the parsed values
\* (get_upcoming_events with max_results and days_ahead, get_events_for_date
\* with the date, get_events_in_range with the two ends); the parse comes
\* before the calendar call.
C21_ParseThenOneCall ==
    (name = "query_calendar" /\ ~IsEmpty(query)) =>
        /\ (pc \in {"returned", "raised"}) => invoked = <<ParseCall>>
        /\ (pc = "responded") =>
              /\ Len(invoked) = 2
              /\ invoked[1] = ParseCall
              /\ invoked[2] = service_call(result, get(arguments, "calendar_id", None))
              /\ invoked[2].op \in ServiceOperations


\* the last call the handler made, if it made one
LastCall == IF invoked = <<>> THEN NoCall ELSE invoked[Len(invoked)]

\* the request asks for availability with two times, one of them unreadable
UnreadableTimes ==
    /\ name = "check_availability"
    /\ {"start_time", "end_time"} \subseteq DOMAIN arguments
    /\ {arguments.start_time, arguments.end_time} \ ParseableTimes # {}

\* C23: call_tool lets no exception escape.  A tool name that is none of
\* the three tools is answered with the text "Unknown tool: <name>" and no
\* call of the calendar service.  An exception raised while a known tool is
\* handled (the service is not initialized, the calendar API fails, a time
\* cannot be parsed) is caught and answered with one text, "Error: "
\* followed by the message of the exception.
C23_NoExceptionEscapes ==
    /\ (pc = "responded" /\ name \notin KnownTools) =>
          /\ response = "Unknown tool: " \o name
          /\ invoked = <<>> /\ sent = <<>> /\ exception = None
    /\ (exception # None) => (name \in KnownTools /\ pc \in {"raised", "responded"})
    /\ (pc = "raised") => (exception # None /\ ENABLED CallToolExcept)
    /\ (pc = "responded" /\ exception # None) => response = "Error: " \o exception
    /\ (pc = "responded" /\ exception = None) => response # None
    /\ (pc = "responded" /\ service = None /\ LastCall.op \in ServiceOperations) =>
          exception = NotInitialized
    /\ (pc = "responded" /\ service # None /\ UnreadableTimes) =>
          response \in {"Error: Unknown string format: sometime",
                        "Error: Unknown string format: whenever"}

\* the calendar API fails under get_upcoming_events on an initialized
\* server, and the failure is the text of the response
C23_Witness ==
    /\ pc = "responded" /\ name = "get_upcoming_events" /\ service # None
    /\ Len(sent) = 1
    /\ exception = "Failed to fetch calendar events: " \o HttpErrorText
    /\ response = "Error: Failed to fetch calendar events: <HttpError 500 \"Backend Error\">"


\* the calls of operations of the calendar service the handler made
ServiceCalls == SelectSeq(invoked, LAMBDA call : call.op \in ServiceOperations)

\* nothing of the request has been handled
NothingServed == invoked = <<>> /\ sent = <<>> /\ response = None /\ exception = None

\* what holds of the service in every state
ServiceGuarded ==
    /\ (service = None) => sent = <<>>
    /\ (service = None /\ ServiceCalls # <<>>) =>
          /\ Len(ServiceCalls) = 1
          /\ pc \in {"raised", "responded"}
          /\ exception = NotInitialized
    /\ (service # None) <=> (credentials # None)
    /\ (pc \in {"start", "failed"}) => (service = None /\ NothingServed)
    /\ Len(sent) <= Len(ServiceCalls)

\* run goes on from initialize to serve only with the service built
ServesAfterInitialize ==
    (pc = "start") =>
        \/ pc' = "failed" /\ service' = None /\ credentials' = None
        \/ pc' = "request" /\ service' # None /\ credentials' # None

\* C24: no request is sent to the calendar API unless initialization has
\* succeeded.  While the service is not initialized every operation of the
\* calendar service raises "Calendar service not initialized" before it
\* does anything else; initialize sets the service only when credentials
\* were obtained and otherwise raises and leaves it unset; run completes
\* initialize before it serves tool requests.
C24_NoRequestBeforeInitialize == []ServiceGuarded /\ [][ServesAfterInitialize]_vars

\* check_availability on a server that was never initialized: the one call
\* raises and nothing is sent, where the same request on an initialized
\* server sends its request
C24_Witness ==
    /\ pc = "responded" /\ name = "check_availability" /\ service = None
    /\ ~UnreadableTimes
    /\ Len(ServiceCalls) = 1 /\ sent = <<>>
    /\ response = "Error: Calendar service not initialized"

=============================================================================
